---- MODULE Spec2Model ----
(***************************************************************************)
(* Model of the hedged HTTP transport of 1pkg/hedgehog.                    *)
(*                                                                         *)
(* One behaviour is one call of transport.RoundTrip (src/transport.go):    *)
(* the resource lookup, and for a matched request the body of              *)
(* multiRoundTrip with its errgroup: the collector goroutine, the          *)
(* calls+1 roundTrip goroutines, the timer returned by Resource.After and  *)
(* the caller who may cancel the request's context at any moment.          *)
(***************************************************************************)
EXTENDS Integers, Sequences, FiniteSets, TLC

\* Largest fan-out count (transport.calls) the model enumerates.
MaxCalls == 2

\* Width in bits of the signed accumulator average.sum (an int64 in the
\* code, narrowed so that its overflow is within reach).
IntBits == 7

\* Largest capacity argument given to a constructor.
MaxCapacity == 3

\* Largest number of callbacks run on one resource.
MaxObs == 5

\* Largest number of NewHTTPClient calls.
MaxWraps == 3

\* Numbers of goroutines that run the callbacks of one resource: one runs
\* them sequentially, two run them concurrently.
ProcCounts == {1, 2}

\* math.MaxInt16, the capacity a negative capacity argument is replaced by.
MaxInt16 == 32767

\* ------------------------------------------------------------------------
\* Values

\* The nil *http.Response / nil error.
Nil == [kind |-> "nil"]

\* Status codes the test server of the model hands out.
Codes == {200, 403}

\* An *http.Response obtained by attempt a (0: the direct, unhedged call).
Resp(a, code) == [kind |-> "resp", id |-> a, code |-> code]

\* An opaque error of the underlying transport, as returned to attempt a.
TransportErr(a) == [kind |-> "err", what |-> "transport", id |-> a, code |-> 0]

\* ctx.Err() of a cancelled context: the one value context.Canceled, which
\* is also what a transport that honours the context fails with.
CtxErr == [kind |-> "err", what |-> "canceled", id |-> 0, code |-> 0]

\* ErrResourceUnexpectedResponseCode{StatusCode: code}: a value type, two
\* of them with the same code are equal.
ErrResourceUnexpectedResponseCode(code) ==
    [kind |-> "err", what |-> "code", id |-> 0, code |-> code]

IsResp(x) == x.kind = "resp"
IsErr(x) == x.kind = "err"

\* ------------------------------------------------------------------------
\* Resources (static variant) and requests

\* A nil *regexp.Regexp.
NilUrl == {"<nil>"}

\* NewResourceStatic: the regexp is modelled by the set of URLs it matches.
NewResourceStatic(method, url, delay, allowedCodes) ==
    [method |-> method, url |-> url, delay |-> delay, codes |-> allowedCodes]

\* static.Match
Match(r, rq) ==
    IF r.method # rq.method THEN FALSE
    ELSE IF r.url # NilUrl /\ rq.url \notin r.url THEN FALSE
    ELSE TRUE

\* A Check that accepts every response.
Check_alwaysNil(r, rp) == Nil

\* static.Check: nil, or the unexpected-code error.
Check(r, rp) ==
    IF rp.code \notin r.codes
    THEN ErrResourceUnexpectedResponseCode(rp.code)
    ELSE Nil

\* The loop of transport.RoundTrip: index of the first resource whose Match
\* accepts the request, 0 when there is none.
RECURSIVE LookupFrom(_, _, _)
LookupFrom(rs, rq, i) ==
    IF i > Len(rs) THEN 0
    ELSE IF Match(rs[i], rq) THEN i
    ELSE LookupFrom(rs, rq, i + 1)

\* A lookup that keeps the last resource that matches.
RECURSIVE LookupLastFrom(_, _, _)
LookupLastFrom(rs, rq, i) ==
    IF i < 1 THEN 0
    ELSE IF Match(rs[i], rq) THEN i
    ELSE LookupLastFrom(rs, rq, i - 1)

Lookup_last(rs, rq) == LookupLastFrom(rs, rq, Len(rs))

\* A lookup that hands out the first configured resource without asking
\* its Match.
Lookup_unmatched(rs, rq) == IF Len(rs) > 0 THEN 1 ELSE 0

Lookup(rs, rq) == LookupFrom(rs, rq, 1)

\* The registries and requests the model is run on (after the cases of
\* TestRoundTripper).
Registries ==
    { << >>,
      << NewResourceStatic("GET", {"/profile"}, 1, {200}) >>,
      << NewResourceStatic("GET", {"/user"}, 1, {200}),
         NewResourceStatic("PUT", {"/profile"}, 1, {200}),
         NewResourceStatic("GET", {"/profile"}, 5, {200}),
         NewResourceStatic("GET", NilUrl, 100, {200, 403}) >> }

Requests ==
    { [method |-> "GET", url |-> "/profile"],
      [method |-> "HEAD", url |-> "/profile"] }

\* ------------------------------------------------------------------------
\* Resources with statistics (average, percentiles)

\* Latencies time.Since(t) can measure in a callback.
Latencies == {1, 20}

\* Status codes of the responses given to Check.
StatusCodes == {200, 201, 403, 500}

\* Percentile arguments, in quarters: -0.5, 0, 0.25 and 1.25.  A float64
\* holds a multiple of a quarter exactly, and its product with a buffer
\* length as well, so the arithmetic on them below is that of the code.
PercentileArgs == {-2, 0, 1, 5}

\* Two's complement wrap-around of the accumulator's arithmetic.
Wrap(x) == ((x + 2 ^ (IntBits - 1)) % (2 ^ IntBits)) - 2 ^ (IntBits - 1)

\* Go's integer division, which truncates toward zero (b > 0).
GoDiv(a, b) == IF a >= 0 THEN a \div b ELSE -((-a) \div b)

\* math.Abs
Abs(x) == IF x < 0 THEN -x ELSE x

\* math.Round(float64(l) * percentile) for a percentile of q quarters: the
\* product l * q / 4 is exact in float64, and Round takes it to the nearest
\* integer, a half away from zero (the product is not negative).
Round(l, q) == (2 * l * q + 4) \div 8

\* sort.Slice(lat, lat[i] < lat[j]): the sequence in ascending order.
RECURSIVE Insert(_, _)
Insert(q, x) ==
    IF q = << >> THEN << x >>
    ELSE IF x < Head(q) THEN << x >> \o q
    ELSE << Head(q) >> \o Insert(Tail(q), x)

RECURSIVE Sort(_)
Sort(q) == IF q = << >> THEN << >> ELSE Insert(Sort(Tail(q)), Head(q))

\* A static resource taken on its own.
StaticResource(method, url, delay, allowedCodes) ==
    [kind |-> "static", capacity |-> 0, percentile |-> 0]
        @@ NewResourceStatic(method, url, delay, allowedCodes)

\* NewResourceAverage: the static part is embedded, so Match and Check are
\* those of static.
NewResourceAverage(method, url, delay, capacity, allowedCodes) ==
    [kind |-> "average",
     capacity |-> IF capacity < 0 THEN MaxInt16 ELSE capacity,
     percentile |-> 0]
        @@ NewResourceStatic(method, url, delay, allowedCodes)

\* NewResourcePercentiles: math.Abs of the percentile (in quarters), 1.0 for
\* a larger one.
NewResourcePercentiles(method, url, delay, percentile, capacity, allowedCodes) ==
    [kind |-> "percentiles",
     capacity |-> IF capacity < 0 THEN MaxInt16 ELSE capacity,
     percentile |-> IF Abs(percentile) > 4 THEN 4 ELSE Abs(percentile)]
        @@ NewResourceStatic(method, url, delay, allowedCodes)

\* The resources a constructor builds from the arguments the model draws.
BuiltResources(capacities, codeSets) ==
    {StaticResource("GET", NilUrl, 1, cs) : cs \in codeSets}
    \cup {NewResourceAverage("GET", NilUrl, 1, c, cs) :
             c \in capacities, cs \in codeSets}
    \cup {NewResourcePercentiles("GET", NilUrl, 1, q, c, cs) :
             q \in PercentileArgs, c \in capacities, cs \in codeSets}

\* The delay average.After computes from the count and the sum it loaded.
AverageDelay(r, n, s) ==
    IF n >= r.capacity
    THEN IF n = 0
         THEN [src |-> "panic", delay |-> 0]
         ELSE [src |-> "computed", delay |-> GoDiv(s, n)]
    ELSE [src |-> "base", delay |-> r.delay]

\* The index percentiles.After reads its sorted copy at.
PercentileIndex(r, l) == Round(l, r.percentile) - 1

\* A percentiles.After that waits for half the capacity rounded up.
PercentileDelay_ceil(r, lat) ==
    IF Len(lat) >= (r.capacity + 1) \div 2
    THEN IF PercentileIndex(r, Len(lat)) \in 0 .. Len(lat) - 1
         THEN [src |-> "computed",
               delay |-> Sort(lat)[PercentileIndex(r, Len(lat)) + 1]]
         ELSE [src |-> "panic", delay |-> 0]
    ELSE [src |-> "base", delay |-> r.delay]

\* The delay percentiles.After computes from the buffer.
PercentileDelay(r, lat) ==
    IF Len(lat) >= r.capacity \div 2
    THEN IF PercentileIndex(r, Len(lat)) \in 0 .. Len(lat) - 1
         THEN [src |-> "computed",
               delay |-> Sort(lat)[PercentileIndex(r, Len(lat)) + 1]]
         ELSE [src |-> "panic", delay |-> 0]
    ELSE [src |-> "base", delay |-> r.delay]

\* A condition that lets the count pass twice the capacity by one.
MustRenormalise_late(r, newval, cnt) == newval < 0 \/ cnt > r.capacity * 2 + 1

\* The callback of average.Hook must renormalise.
MustRenormalise(r, newval, cnt) == newval < 0 \/ cnt > r.capacity * 2

\* val := oldval / count * (r.capacity + 1)
RenormalisedSum(r, oldval, cnt) == Wrap(GoDiv(oldval, cnt) * (r.capacity + 1))

\* The callback of average.Hook run alone on the statistics st, with latency
\* d: the additions, the condition and the two stores.
AverageCallbackAlone(r, st, d) ==
    LET newval == Wrap(st.sum + d)
        cnt == st.count + 1
    IN  IF MustRenormalise(r, newval, cnt)
        THEN [sum |-> RenormalisedSum(r, st.sum, cnt),
              count |-> r.capacity + 1]
        ELSE [sum |-> newval, count |-> cnt]

\* The statistics after k callbacks of latency d run one after another on a
\* new resource.
RECURSIVE AverageAfterCallbacks(_, _, _)
AverageAfterCallbacks(r, d, k) ==
    IF k = 0 THEN [sum |-> 0, count |-> 0]
    ELSE AverageCallbackAlone(r, AverageAfterCallbacks(r, d, k - 1), d)

\* A callback that empties a full buffer.
PercentileAppend_dropAll(r, lat, d) ==
    IF Len(lat) + 1 >= r.capacity THEN << >> ELSE Append(lat, d)

\* A callback that drops the newer part of a full buffer.
PercentileAppend_dropNewest(r, lat, d) ==
    IF Len(lat) + 1 >= r.capacity
    THEN SubSeq(Append(lat, d), 1, Len(lat) + 1 - r.capacity \div 2)
    ELSE Append(lat, d)

\* percentiles.Hook's callback on the buffer: append, then drop.
PercentileAppend(r, lat, d) ==
    IF Len(lat) + 1 >= r.capacity
    THEN SubSeq(Append(lat, d), r.capacity \div 2 + 1, Len(lat) + 1)
    ELSE Append(lat, d)

\* ------------------------------------------------------------------------
\* State

VARIABLES
    calls,            \* transport.calls
    resources,        \* transport.resources
    req,              \* the request of this call
    callerCancelled,  \* req.Context() is cancelled
    preCancelled,     \* it was cancelled before RoundTrip was called
    pc,               \* position of the calling goroutine
    matched,          \* index of the resource handed to multiRoundTrip
    timer,            \* the channel returned by rs.After()
    fi,               \* i of the fan-out loop
    ctxCancelled,     \* the errgroup's ctx is cancelled
    cpc,              \* position of the collector goroutine
    ci,               \* i of the collector loop
    res,              \* the buffered channel res
    resClosed,        \* close(res) has run
    resp,             \* named result resp
    err,              \* named result err
    att,              \* the roundTrip goroutines, in the order of their g.Go
    closed,           \* responses whose body the engine has closed
    rtCalls,          \* calls of t.internal.RoundTrip
    afterCalls,       \* calls of After, per resource
    checkCalls,       \* calls of Check, per resource
    hookCalls,        \* calls of Hook, per resource
    recvLog,          \* what the collector took from res, in order
    collExit,         \* which return statement the collector left by
    directOut         \* the pair the direct transport call returned

\* One resource on its own, as TestResorces drives it: its configuration,
\* its statistics, and the goroutines that are inside its methods.
VARIABLES
    rsrc,             \* the resource: variant, static part, capacity, percentile
    sum,              \* average.sum
    count,            \* average.count
    latencies,        \* percentiles.latencies
    hooks,            \* the goroutines running a callback returned by Hook
    nprocs,           \* how many goroutines call the resource concurrently
    nobs,             \* callbacks started so far
    aft,              \* the goroutine inside After
    afterOut,         \* what the last After call did
    checkOut,         \* what the last Check call returned
    seen,             \* the latencies the callbacks of an average resource measured
    observed,         \* the latencies appended by the callbacks of a percentiles
                      \* resource, in order
    transports,       \* the Transport field of each *http.Client
    handed,           \* the clients NewHTTPClient returned, with the
                      \* configuration of the call
    sent              \* what the last request sent through a client met

statVars == << rsrc, sum, count, latencies, hooks, nprocs, nobs, aft, afterOut,
               checkOut, seen, observed >>

clientVars == << transports, handed, sent >>

vars == << calls, resources, req, callerCancelled, preCancelled, pc, matched,
           timer, fi, ctxCancelled, cpc, ci, res, resClosed, resp, err, att,
           closed, rtCalls, afterCalls, checkCalls, hookCalls, recvLog,
           collExit, directOut, statVars, clientVars >>

cfgVars == << calls, resources, req, preCancelled, statVars, clientVars >>
logVars == << recvLog, collExit, directOut >>
useVars == << afterCalls, checkCalls, hookCalls >>

\* A channel with room for the hedged attempts only.
ChanCap_calls(c) == c

\* make(chan interface{}, t.calls+1)
ChanCap(c) == c + 1

\* No resource is driven on its own.
ResourceIdle ==
    /\ rsrc = Nil
    /\ sum = 0
    /\ count = 0
    /\ latencies = << >>
    /\ hooks = << >>
    /\ nprocs = 0
    /\ nobs = 0
    /\ aft = Nil
    /\ afterOut = Nil
    /\ checkOut = Nil
    /\ seen = {}
    /\ observed = << >>

\* The clients: http.DefaultClient and one client of the caller's, both
\* with a nil Transport.
Clients == {"DefaultClient", "client"}

\* No client has been wrapped.
ClientIdle ==
    /\ transports = [c \in Clients |-> [base |-> "nil", layers |-> << >>]]
    /\ handed = {}
    /\ sent = Nil

Init ==
    /\ ResourceIdle
    /\ ClientIdle
    /\ calls \in 0 .. MaxCalls
    /\ resources \in Registries
    /\ req \in Requests
    /\ callerCancelled \in BOOLEAN
    /\ preCancelled = callerCancelled
    /\ pc = "entry"
    /\ matched = 0
    /\ timer = "none"
    /\ fi = 0
    /\ ctxCancelled = FALSE
    /\ cpc = "none"
    /\ ci = 0
    /\ res = << >>
    /\ resClosed = FALSE
    /\ resp = Nil
    /\ err = Nil
    /\ att = << >>
    /\ closed = {}
    /\ rtCalls = 0
    /\ afterCalls = [k \in 1 .. Len(resources) |-> 0]
    /\ checkCalls = [k \in 1 .. Len(resources) |-> 0]
    /\ hookCalls = [k \in 1 .. Len(resources) |-> 0]
    /\ recvLog = << >>
    /\ collExit = "none"
    /\ directOut = << Nil, Nil >>

\* ------------------------------------------------------------------------
\* The underlying transport

\* What t.internal.RoundTrip can return to caller a: a response with some
\* status code, an error of its own, or, once the context it was given is
\* cancelled, the context's error.
TransportOutcomes(a, cancelled) ==
    {Resp(a, c) : c \in Codes} \cup {TransportErr(a)}
        \cup (IF cancelled THEN {CtxErr} ELSE {})

\* ------------------------------------------------------------------------
\* transport.RoundTrip

\* No resource matches: return t.internal.RoundTrip(req); the call is made.
RoundTripNoMatch ==
    /\ pc = "entry"
    /\ Lookup(resources, req) = 0
    /\ rtCalls' = rtCalls + 1
    /\ pc' = "direct"
    /\ UNCHANGED << cfgVars, logVars, useVars, callerCancelled, matched, timer,
                    fi, ctxCancelled, cpc, ci, res, resClosed, resp, err, att,
                    closed >>

\* ... and the direct call returns: its pair is the result of RoundTrip.
DirectReturn ==
    /\ pc = "direct"
    /\ \E o \in TransportOutcomes(0, callerCancelled) :
          /\ directOut' = IF IsResp(o) THEN << o, Nil >> ELSE << Nil, o >>
          /\ resp' = directOut'[1]
          /\ err' = directOut'[2]
    /\ pc' = "done"
    /\ UNCHANGED << cfgVars, useVars, callerCancelled, matched, timer, fi,
                    ctxCancelled, cpc, ci, res, resClosed, att, closed,
                    rtCalls, recvLog, collExit >>

\* g.Go(roundTrip): goroutine a becomes runnable.
\* It is remembered how often After had been called, what state the timer
\* was in and whether the collector had captured a response when the
\* goroutine was started.
GoRoundTrip(k) ==
    att' = Append(att, [st |-> "ready", out |-> Nil, ctxAtCall |-> FALSE,
                        cb |-> 0, startAfter |-> afterCalls[k],
                        startTimer |-> timer, startResp |-> resp # Nil])

\* The first resource that matches is handed to multiRoundTrip, which
\* derives the group and its ctx, makes res, and starts the collector and
\* the primary roundTrip.
RoundTripMatch ==
    /\ pc = "entry"
    /\ Lookup(resources, req) # 0
    /\ matched' = Lookup(resources, req)
    /\ ctxCancelled' = callerCancelled
    /\ res' = << >>
    /\ cpc' = "run"
    /\ ci' = 0
    /\ GoRoundTrip(Lookup(resources, req))
    /\ pc' = "after"
    /\ UNCHANGED << cfgVars, logVars, useVars, callerCancelled, timer, fi,
                    resClosed, resp, err, closed, rtCalls >>

\* ------------------------------------------------------------------------
\* multiRoundTrip: the calling goroutine

\* rs.After() is called; static.After returns time.After(r.delay).
CallAfter ==
    /\ pc = "after"
    /\ afterCalls' = [afterCalls EXCEPT ![matched] = @ + 1]
    /\ timer' = "armed"
    /\ pc' = "await"
    /\ UNCHANGED << cfgVars, logVars, callerCancelled, matched, fi,
                    ctxCancelled, cpc, ci, res, resClosed, resp, err, att,
                    closed, rtCalls, checkCalls, hookCalls >>

\* The delay elapses: the runtime sends on the timer's channel.
TimerFire ==
    /\ timer = "armed"
    /\ timer' = "fired"
    /\ UNCHANGED << cfgVars, logVars, useVars, callerCancelled, pc, matched,
                    fi, ctxCancelled, cpc, ci, res, resClosed, resp, err, att,
                    closed, rtCalls >>

\* A fan-out that does not wait for the timer.
RecvAfter_noWait ==
    /\ pc = "await"
    /\ fi' = 0
    /\ pc' = "fanout"
    /\ UNCHANGED << cfgVars, logVars, useVars, callerCancelled, matched,
                    timer, ctxCancelled, cpc, ci, res, resClosed, resp, err,
                    att, closed, rtCalls >>

\* <-rs.After() receives.
RecvAfter ==
    /\ pc = "await"
    /\ timer = "fired"
    /\ fi' = 0
    /\ pc' = "fanout"
    /\ UNCHANGED << cfgVars, logVars, useVars, callerCancelled, matched,
                    timer, ctxCancelled, cpc, ci, res, resClosed, resp, err, att,
                    closed, rtCalls >>

\* A fan-out loop that runs once too often: i <= t.calls.
FanoutCount_more(c) == c + 1

\* The bound of the fan-out loop: i < t.calls.
FanoutCount(c) == c

\* A fan-out loop that starts no attempt once ctx is done.
FanoutGo_unlessDone ==
    /\ pc = "fanout"
    /\ fi < FanoutCount(calls)
    /\ IF ctxCancelled THEN att' = att ELSE GoRoundTrip(matched)
    /\ fi' = fi + 1
    /\ UNCHANGED << cfgVars, logVars, useVars, callerCancelled, pc, matched,
                    timer, ctxCancelled, cpc, ci, res, resClosed, resp, err,
                    closed, rtCalls >>

\* for i := 0; i < t.calls; i++ { g.Go(roundTrip) }
FanoutGo ==
    /\ pc = "fanout"
    /\ fi < FanoutCount(calls)
    /\ GoRoundTrip(matched)
    /\ fi' = fi + 1
    /\ UNCHANGED << cfgVars, logVars, useVars, callerCancelled, pc, matched,
                    timer, ctxCancelled, cpc, ci, res, resClosed, resp, err,
                    closed, rtCalls >>

\* A wait that returns as soon as the collector has.
GroupIdle_collectorOnly == cpc = "exit"

\* Every goroutine of the group has returned.
GroupIdle ==
    /\ cpc = "exit"
    /\ \A a \in DOMAIN att : att[a].st = "done"

\* _ = g.Wait(); return, and the deferred close(res).  Wait returns once
\* the group's goroutines have, and cancels ctx.
GroupWait ==
    /\ pc = "fanout"
    /\ fi >= FanoutCount(calls)
    /\ GroupIdle
    /\ ctxCancelled' = TRUE
    /\ resClosed' = TRUE
    /\ pc' = "done"
    /\ UNCHANGED << cfgVars, logVars, useVars, callerCancelled, matched,
                    timer, fi, cpc, ci, res, resp, err, att, closed, rtCalls >>

\* ------------------------------------------------------------------------
\* multiRoundTrip: the roundTrip goroutines

\* res <- x on the buffered channel: possible while there is room.
Send(x) ==
    /\ ~resClosed
    /\ Len(res) < ChanCap(calls)
    /\ res' = Append(res, x)

\* A clone that is not bound to the group's ctx: req.Clone of a context
\* that is never cancelled.
AttemptCall_background(a) ==
    /\ att[a].st = "ready"
    /\ hookCalls' = [hookCalls EXCEPT ![matched] = @ + 1]
    /\ rtCalls' = rtCalls + 1
    /\ att' = [att EXCEPT ![a].st = "inflight", ![a].ctxAtCall = FALSE]
    /\ UNCHANGED << cfgVars, logVars, callerCancelled, pc, matched, timer, fi,
                    ctxCancelled, cpc, ci, res, resClosed, resp, err, closed,
                    afterCalls, checkCalls >>

\* req.Clone(ctx); h := rs.Hook(req); and t.internal.RoundTrip(req) is
\* entered with the group's ctx as it is at this moment.
AttemptCall(a) ==
    /\ att[a].st = "ready"
    /\ hookCalls' = [hookCalls EXCEPT ![matched] = @ + 1]
    /\ rtCalls' = rtCalls + 1
    /\ att' = [att EXCEPT ![a].st = "inflight", ![a].ctxAtCall = ctxCancelled]
    /\ UNCHANGED << cfgVars, logVars, callerCancelled, pc, matched, timer, fi,
                    ctxCancelled, cpc, ci, res, resClosed, resp, err, closed,
                    afterCalls, checkCalls >>

\* A roundTrip that sends the transport's outcome without validation.
Verdict_noCheck(r, o) == o

\* What roundTrip puts on res for the transport's outcome o: the error, the
\* error of Check, or the response.
Verdict(r, o) ==
    IF IsErr(o) THEN o
    ELSE IF Check(r, o) # Nil THEN Check(r, o)
    ELSE o

\* A roundTrip that runs the callback before it checks the response.
AttemptReturn_hookFirst(a) ==
    /\ att[a].st = "inflight"
    /\ \E o \in TransportOutcomes(a, ctxCancelled) :
          /\ att' = [att EXCEPT
                       ![a].st = "done",
                       ![a].out = o,
                       ![a].cb = IF IsResp(o) THEN @ + 1 ELSE @]
          /\ checkCalls' = [checkCalls EXCEPT
                              ![matched] = IF IsResp(o) THEN @ + 1 ELSE @]
          /\ Send(Verdict(resources[matched], o))
    /\ UNCHANGED << cfgVars, logVars, callerCancelled, pc, matched, timer, fi,
                    ctxCancelled, cpc, ci, resClosed, resp, err, closed,
                    rtCalls, afterCalls, hookCalls >>

\* The transport call returns; the rest of roundTrip: Check, the callback
\* that Hook returned, the send, return nil.
AttemptReturn(a) ==
    /\ att[a].st = "inflight"
    /\ \E o \in TransportOutcomes(a, ctxCancelled) :
          /\ att' = [att EXCEPT
                       ![a].st = "done",
                       ![a].out = o,
                       ![a].cb = IF IsResp(Verdict(resources[matched], o))
                                 THEN @ + 1 ELSE @]
          /\ checkCalls' = [checkCalls EXCEPT
                              ![matched] = IF IsResp(o) THEN @ + 1 ELSE @]
          /\ Send(Verdict(resources[matched], o))
    /\ UNCHANGED << cfgVars, logVars, callerCancelled, pc, matched, timer, fi,
                    ctxCancelled, cpc, ci, resClosed, resp, err, closed,
                    rtCalls, afterCalls, hookCalls >>

\* ------------------------------------------------------------------------
\* multiRoundTrip: the collector goroutine

\* An error case that overwrites err with every error it sees.
KeepFirst_last(old, e) == e

\* case error: keep only first occurred error.
KeepFirst(old, e) == IF old = Nil THEN e ELSE old

\* A response case that forgets `err = nil`.
RecvResult_keepErr(old, x) ==
    IF IsResp(x) THEN << x, old[2] >>
    ELSE << old[1], KeepFirst(old[2], x) >>

\* The type switch on the received item: << resp, err >> after it, given
\* the pair before it.
RecvResult(old, x) ==
    IF IsResp(x) THEN << x, Nil >>
    ELSE << old[1], KeepFirst(old[2], x) >>

\* select picks `case r := <-res`.  After a response the collector returns
\* context.Canceled (the group cancels ctx afterwards, in GroupCancel);
\* after an error the loop goes on or runs out (return nil).
CollectorRecv ==
    /\ cpc = "run"
    /\ ci < calls + 1
    /\ res # << >>
    /\ res' = Tail(res)
    /\ recvLog' = Append(recvLog, [item |-> Head(res), cancelled |-> ctxCancelled])
    /\ resp' = RecvResult(<< resp, err >>, Head(res))[1]
    /\ err' = RecvResult(<< resp, err >>, Head(res))[2]
    /\ IF IsResp(Head(res))
       THEN /\ cpc' = "returned"
            /\ collExit' = "response"
            /\ ctxCancelled' = ctxCancelled
            /\ ci' = ci
       ELSE /\ ci' = ci + 1
            /\ cpc' = IF ci + 1 < calls + 1 THEN "run" ELSE "exit"
            /\ collExit' = IF ci + 1 < calls + 1 THEN collExit ELSE "errors"
            /\ ctxCancelled' = ctxCancelled
    /\ UNCHANGED << cfgVars, useVars, callerCancelled, pc, matched, timer, fi,
                    resClosed, att, closed, rtCalls, directOut >>

\* A Done case that leaves err as it is.
CollectorDone_noErr ==
    /\ cpc = "run"
    /\ ci < calls + 1
    /\ ctxCancelled
    /\ cpc' = "returned"
    /\ collExit' = "cancelled"
    /\ UNCHANGED << cfgVars, useVars, callerCancelled, pc, matched, timer, fi,
                    ctxCancelled, ci, res, resClosed, resp, err, att, closed,
                    rtCalls, recvLog, directOut >>

\* A Done case that keeps an attempt error received earlier.
CollectorDone_keepFirst ==
    /\ cpc = "run"
    /\ ci < calls + 1
    /\ ctxCancelled
    /\ err' = KeepFirst(err, CtxErr)
    /\ cpc' = "returned"
    /\ collExit' = "cancelled"
    /\ UNCHANGED << cfgVars, useVars, callerCancelled, pc, matched, timer, fi,
                    ctxCancelled, ci, res, resClosed, resp, att, closed,
                    rtCalls, recvLog, directOut >>

\* select picks `case <-ctx.Done()`: err = ctx.Err(), return
\* context.Canceled (GroupCancel follows).
CollectorDone ==
    /\ cpc = "run"
    /\ ci < calls + 1
    /\ ctxCancelled
    /\ err' = CtxErr
    /\ cpc' = "returned"
    /\ collExit' = "cancelled"
    /\ UNCHANGED << cfgVars, useVars, callerCancelled, pc, matched, timer, fi,
                    ctxCancelled, ci, res, resClosed, resp, att, closed,
                    rtCalls, recvLog, directOut >>

\* The goroutine g.Go started for the collector, after the collector's
\* function returned context.Canceled: the group records the error and
\* cancels ctx, and the goroutine is done.
GroupCancel ==
    /\ cpc = "returned"
    /\ ctxCancelled' = TRUE
    /\ cpc' = "exit"
    /\ UNCHANGED << cfgVars, logVars, useVars, callerCancelled, pc, matched,
                    timer, fi, ci, res, resClosed, resp, err, att, closed,
                    rtCalls >>

\* ------------------------------------------------------------------------
\* The caller

\* The caller cancels the request's context while the call is running; the
\* group's ctx, derived from it, is cancelled with it.
CallerCancel ==
    /\ pc \notin {"entry", "done"}
    /\ ~callerCancelled
    /\ callerCancelled' = TRUE
    /\ ctxCancelled' = IF pc = "direct" THEN ctxCancelled ELSE TRUE
    /\ UNCHANGED << cfgVars, logVars, useVars, pc, matched, timer, fi, cpc, ci,
                    res, resClosed, resp, err, att, closed, rtCalls >>

Next ==
    \/ RoundTripNoMatch
    \/ DirectReturn
    \/ RoundTripMatch
    \/ CallAfter
    \/ TimerFire
    \/ RecvAfter
    \/ FanoutGo
    \/ GroupWait
    \/ \E a \in DOMAIN att : AttemptCall(a)
    \/ \E a \in DOMAIN att : AttemptReturn(a)
    \/ CollectorRecv
    \/ CollectorDone
    \/ GroupCancel
    \/ CallerCancel

Spec == Init /\ [][Next]_vars

\* The call under fair scheduling: every goroutine that can take a step
\* eventually does (the calling goroutine is at one position at a time, so
\* its steps share one condition), the timer of the readiness signal fires,
\* and a transport call in flight returns.  The caller's cancellation is
\* not forced.
Fairness ==
    /\ WF_vars(\/ RoundTripNoMatch
               \/ DirectReturn
               \/ RoundTripMatch
               \/ CallAfter
               \/ RecvAfter
               \/ FanoutGo
               \/ GroupWait)
    /\ WF_vars(TimerFire)
    /\ WF_vars(\E a \in DOMAIN att : AttemptCall(a))
    /\ WF_vars(\E a \in DOMAIN att : AttemptReturn(a))
    /\ WF_vars(CollectorRecv \/ CollectorDone)
    /\ WF_vars(GroupCancel)

FairSpec == Spec /\ Fairness

\* ------------------------------------------------------------------------
\* A resource driven on its own

\* No call of RoundTrip is in progress.
TransportIdle ==
    /\ calls = 0
    /\ resources = << >>
    /\ req = [method |-> "GET", url |-> "/profile"]
    /\ callerCancelled = FALSE
    /\ preCancelled = FALSE
    /\ pc = "none"
    /\ matched = 0
    /\ timer = "none"
    /\ fi = 0
    /\ ctxCancelled = FALSE
    /\ cpc = "none"
    /\ ci = 0
    /\ res = << >>
    /\ resClosed = FALSE
    /\ resp = Nil
    /\ err = Nil
    /\ att = << >>
    /\ closed = {}
    /\ rtCalls = 0
    /\ afterCalls = << >>
    /\ checkCalls = << >>
    /\ hookCalls = << >>
    /\ recvLog = << >>
    /\ collExit = "none"
    /\ directOut = << Nil, Nil >>

transportVars == << calls, resources, req, callerCancelled, preCancelled, pc,
                    matched, timer, fi, ctxCancelled, cpc, ci, res, resClosed,
                    resp, err, att, closed, rtCalls, afterCalls, checkCalls,
                    hookCalls, recvLog, collExit, directOut >>

\* A goroutine that is not inside a callback: its position and the
\* callback's locals d, oldval, newval and count.
HookIdle == [pc |-> "idle", d |-> 0, oldval |-> 0, newval |-> 0, cnt |-> 0]

InitResource ==
    /\ TransportIdle
    /\ ClientIdle
    /\ rsrc \in BuiltResources(0 .. MaxCapacity, {{200}})
    /\ sum = 0
    /\ count = 0
    /\ latencies = << >>
    /\ nprocs \in ProcCounts
    /\ hooks = [p \in 1 .. nprocs |-> HookIdle]
    /\ nobs = 0
    /\ aft = Nil
    /\ afterOut = Nil
    /\ checkOut = Nil
    /\ seen = {}
    /\ observed = << >>

Quiet == \A p \in DOMAIN hooks : hooks[p].pc = "idle"

\* A behaviour has one call of After, as in TestResorces.
AfterNotCalled == aft = Nil /\ afterOut = Nil

\* Callbacks start at any time before and during the call of After, also
\* between its two loads; a behaviour is followed up to the return of After
\* and the end of the callbacks then in flight.
AfterNotReturned == afterOut = Nil

\* static.After: time.After(r.delay).
StaticAfter ==
    /\ rsrc.kind = "static"
    /\ AfterNotCalled
    /\ afterOut' = [src |-> "base", delay |-> rsrc.delay, n |-> 0, s |-> 0,
                    quiet |-> TRUE]
    /\ UNCHANGED << transportVars, clientVars, rsrc, sum, count, latencies, hooks, nprocs,
                    nobs, aft, checkOut, seen, observed >>

\* average.After: count := atomic.LoadInt64(&r.count)
AverageAfterLoad ==
    /\ rsrc.kind = "average"
    /\ AfterNotCalled
    /\ aft' = [count |-> count, quiet |-> Quiet, nobs |-> nobs]
    /\ UNCHANGED << transportVars, clientVars, rsrc, sum, count, latencies, hooks, nprocs,
                    nobs, afterOut, checkOut, seen, observed >>

\* average.After: the comparison with the capacity, atomic.LoadInt64(&r.sum)
\* and the division.
AverageAfterDelay ==
    /\ rsrc.kind = "average"
    /\ aft # Nil
    /\ afterOut' = AverageDelay(rsrc, aft.count, sum)
                      @@ [n |-> aft.count, s |-> sum,
                          quiet |-> aft.quiet /\ Quiet /\ nobs = aft.nobs]
    /\ aft' = Nil
    /\ UNCHANGED << transportVars, clientVars, rsrc, sum, count, latencies, hooks, nprocs,
                    nobs, checkOut, seen, observed >>

\* The callback of average.Hook starts: d := time.Since(t) and
\* oldval := atomic.LoadInt64(&r.sum).
AverageCallbackLoad(p) ==
    /\ rsrc.kind = "average"
    /\ AfterNotReturned
    /\ hooks[p].pc = "idle"
    /\ nobs < MaxObs
    /\ nobs' = nobs + 1
    /\ \E d \in Latencies :
          /\ hooks' = [hooks EXCEPT ![p] =
                          [pc |-> "addsum", d |-> d, oldval |-> sum,
                           newval |-> 0, cnt |-> 0]]
          /\ seen' = seen \cup {d}
    /\ UNCHANGED << transportVars, clientVars, rsrc, sum, count, latencies, nprocs, aft,
                    afterOut, checkOut, observed >>

\* newval := atomic.AddInt64(&r.sum, int64(d))
AverageCallbackAddSum(p) ==
    /\ hooks[p].pc = "addsum"
    /\ sum' = Wrap(sum + hooks[p].d)
    /\ hooks' = [hooks EXCEPT ![p].pc = "addcount", ![p].newval = sum']
    /\ UNCHANGED << transportVars, clientVars, rsrc, count, latencies, nprocs, nobs, aft,
                    afterOut, checkOut, seen, observed >>

\* count := atomic.AddInt64(&r.count, 1) and the test of the condition; the
\* callback returns when it need not renormalise.
AverageCallbackAddCount(p) ==
    /\ hooks[p].pc = "addcount"
    /\ count' = count + 1
    /\ hooks' = [hooks EXCEPT
                   ![p] = IF MustRenormalise(rsrc, hooks[p].newval, count')
                          THEN [@ EXCEPT !.pc = "storesum", !.cnt = count']
                          ELSE HookIdle]
    /\ UNCHANGED << transportVars, clientVars, rsrc, sum, latencies, nprocs, nobs, aft,
                    afterOut, checkOut, seen, observed >>

\* atomic.StoreInt64(&r.sum, val)
AverageCallbackStoreSum(p) ==
    /\ hooks[p].pc = "storesum"
    /\ sum' = RenormalisedSum(rsrc, hooks[p].oldval, hooks[p].cnt)
    /\ hooks' = [hooks EXCEPT ![p].pc = "storecount"]
    /\ UNCHANGED << transportVars, clientVars, rsrc, count, latencies, nprocs, nobs, aft,
                    afterOut, checkOut, seen, observed >>

\* atomic.StoreInt64(&r.count, r.capacity+1); the callback returns.
AverageCallbackStoreCount(p) ==
    /\ hooks[p].pc = "storecount"
    /\ count' = rsrc.capacity + 1
    /\ hooks' = [hooks EXCEPT ![p] = HookIdle]
    /\ UNCHANGED << transportVars, clientVars, rsrc, sum, latencies, nprocs, nobs, aft,
                    afterOut, checkOut, seen, observed >>

\* percentiles.After, all of it under the read lock.
PercentilesAfter ==
    /\ rsrc.kind = "percentiles"
    /\ AfterNotCalled
    /\ afterOut' = PercentileDelay(rsrc, latencies)
                      @@ [n |-> Len(latencies), s |-> 0, quiet |-> TRUE]
    /\ UNCHANGED << transportVars, clientVars, rsrc, sum, count, latencies, hooks, nprocs,
                    nobs, aft, checkOut, seen, observed >>

\* The callback of percentiles.Hook: d := time.Since(t), and the append and
\* the drop under the write lock.
PercentilesCallback ==
    /\ rsrc.kind = "percentiles"
    /\ AfterNotReturned
    /\ nobs < MaxObs
    /\ nobs' = nobs + 1
    /\ \E d \in Latencies :
          /\ latencies' = PercentileAppend(rsrc, latencies, d)
          /\ observed' = Append(observed, d)
    /\ UNCHANGED << transportVars, clientVars, rsrc, sum, count, hooks, nprocs, aft,
                    afterOut, checkOut, seen >>

NextResource ==
    \/ StaticAfter
    \/ AverageAfterLoad
    \/ AverageAfterDelay
    \/ \E p \in DOMAIN hooks : AverageCallbackLoad(p)
    \/ \E p \in DOMAIN hooks : AverageCallbackAddSum(p)
    \/ \E p \in DOMAIN hooks : AverageCallbackAddCount(p)
    \/ \E p \in DOMAIN hooks : AverageCallbackStoreSum(p)
    \/ \E p \in DOMAIN hooks : AverageCallbackStoreCount(p)
    \/ PercentilesAfter
    \/ PercentilesCallback

SpecResource == InitResource /\ [][NextResource]_vars

\* Check called on a resource of any variant and allowed-code set.
InitCheck ==
    /\ TransportIdle
    /\ ClientIdle
    /\ rsrc \in BuiltResources({-1, 0, MaxCapacity}, SUBSET StatusCodes)
    /\ sum = 0
    /\ count = 0
    /\ latencies = << >>
    /\ nprocs = 1
    /\ hooks = [p \in 1 .. nprocs |-> HookIdle]
    /\ nobs = 0
    /\ aft = Nil
    /\ afterOut = Nil
    /\ checkOut = Nil
    /\ seen = {}
    /\ observed = << >>

\* rs.Check(resp), the static part's Check for every variant.
CheckCall ==
    /\ \E code \in StatusCodes :
          checkOut' = [code |-> code, out |-> Check(rsrc, Resp(0, code))]
    /\ UNCHANGED << transportVars, clientVars, rsrc, sum, count, latencies, hooks, nprocs,
                    nobs, aft, afterOut, seen, observed >>

NextCheck == CheckCall

SpecCheck == InitCheck /\ [][NextCheck]_vars

\* ------------------------------------------------------------------------
\* NewHTTPClient

\* A hedging layer: the transport value NewRoundTripper returns, with the
\* fan-out count of the call and whether its resources match the request
\* that is sent.
Layer(c, m) == [calls |-> c, match |-> m]

\* The client NewHTTPClient works on: http.DefaultClient for a nil argument.
ClientOrDefault(client) == IF client = "nil" THEN "DefaultClient" ELSE client

\* client.Transport after NewHTTPClient: the default transport for a nil
\* one, wrapped in one more layer.
Wrapped(t, c, m) ==
    [base |-> IF t.base = "nil" /\ t.layers = << >>
              THEN "DefaultTransport" ELSE t.base,
     layers |-> Append(t.layers, Layer(c, m))]

\* The most calls of the underlying transport one request can cause when
\* it enters the outermost (last) of the layers: a layer that matches calls
\* its internal transport calls+1 times, one that does not calls it once.
RECURSIVE UnderlyingCalls(_)
UnderlyingCalls(layers) ==
    IF layers = << >> THEN 1
    ELSE LET outer == layers[Len(layers)]
         IN  (IF outer.match THEN outer.calls + 1 ELSE 1)
                * UnderlyingCalls(SubSeq(layers, 1, Len(layers) - 1))

\* The most resource lookups (the loop of transport.RoundTrip) one request
\* can cause.
RECURSIVE ResourceLookups(_)
ResourceLookups(layers) ==
    IF layers = << >> THEN 0
    ELSE LET outer == layers[Len(layers)]
         IN  1 + (IF outer.match THEN outer.calls + 1 ELSE 1)
                    * ResourceLookups(SubSeq(layers, 1, Len(layers) - 1))

\* How many layers the clients carry together.
RECURSIVE SumLen(_, _)
SumLen(t, cs) ==
    IF cs = {} THEN 0
    ELSE LET c == CHOOSE x \in cs : TRUE
         IN  Len(t[c].layers) + SumLen(t, cs \ {c})

InitClient ==
    /\ TransportIdle
    /\ ResourceIdle
    /\ ClientIdle

\* NewHTTPClient(client, calls, resources...): the client's Transport field
\* is overwritten in place and the same client is returned.
NewHTTPClient ==
    /\ SumLen(transports, Clients) < MaxWraps
    /\ \E client \in {"nil", "client"}, c \in 0 .. MaxCalls, m \in BOOLEAN :
          LET cl == ClientOrDefault(client)
          IN  /\ transports' = [transports EXCEPT ![cl] = Wrapped(@, c, m)]
              /\ handed' = handed \cup {[client |-> cl, calls |-> c, match |-> m]}
    /\ UNCHANGED << transportVars, statVars, sent >>

\* A request is sent through a client that NewHTTPClient returned.
ClientDo ==
    /\ \E h \in handed :
          sent' = [client |-> h.client,
                   layers |-> Len(transports[h.client].layers),
                   lookups |-> ResourceLookups(transports[h.client].layers),
                   rt |-> UnderlyingCalls(transports[h.client].layers)]
    /\ UNCHANGED << transportVars, statVars, transports, handed >>

NextClient ==
    \/ NewHTTPClient
    \/ ClientDo

SpecClient == InitClient /\ [][NextClient]_vars

\* ------------------------------------------------------------------------
\* Properties

\* The call went into multiRoundTrip and has returned.
Returned == pc = "done" /\ matched # 0

NoMatch == \A k \in 1 .. Len(resources) : ~Match(resources[k], req)

Last(q) == q[Len(q)]

\* C1: if no resource's Match accepts the request, RoundTrip makes exactly
\* one call of the underlying transport and returns the pair that call
\* returned, and no resource's After, Check or Hook is called.
C1_NoMatchPassThrough ==
    NoMatch =>
        /\ rtCalls <= 1
        /\ att = << >>
        /\ \A k \in 1 .. Len(resources) :
              afterCalls[k] = 0 /\ checkCalls[k] = 0 /\ hookCalls[k] = 0
        /\ pc = "done" =>
              /\ rtCalls = 1
              /\ << resp, err >> = directOut
              /\ directOut # << Nil, Nil >>

C1_Witness ==
    /\ NoMatch
    /\ Len(resources) > 0
    /\ pc = "done"
    /\ IsResp(resp)

\* C2: once the collector has received a validated response, the results
\* are that response and a nil error and stay so until and at the return,
\* whatever errors were received before and whether or not the scope is
\* cancelled afterwards.
C2_SuccessWins ==
    (\E i \in 1 .. Len(recvLog) : IsResp(recvLog[i].item)) =>
        /\ IsResp(Last(recvLog).item)
        /\ resp = Last(recvLog).item
        /\ Check(resources[matched], resp) = Nil
        /\ err = Nil
        /\ collExit = "response"

C2_Witness ==
    /\ Returned
    /\ Len(recvLog) >= 2
    /\ IsErr(recvLog[1].item)
    /\ IsResp(Last(recvLog).item)
    /\ callerCancelled
    /\ ~Last(recvLog).cancelled

\* C3: when the caller never cancels, a call that returns an error returns
\* it only after each of the calls+1 attempts has put an error on res and
\* the collector has received them all, and the error is the first one the
\* collector received.
C3_FirstErrorAfterAll ==
    (Returned /\ ~callerCancelled /\ err # Nil) =>
        /\ resp = Nil
        /\ collExit = "errors"
        /\ Len(recvLog) = calls + 1
        /\ Len(att) = calls + 1
        /\ \A a \in DOMAIN att :
              att[a].st = "done" /\ IsErr(Verdict(resources[matched], att[a].out))
        /\ \A i \in 1 .. Len(recvLog) : IsErr(recvLog[i].item)
        /\ err = recvLog[1].item

C3_Witness ==
    /\ Returned
    /\ ~callerCancelled
    /\ calls >= 1
    /\ err # Nil
    /\ recvLog[1].item # recvLog[2].item
    /\ recvLog[1].item.what = "code"

\* C4: one call of multiRoundTrip with fan-out count calls makes at most
\* calls+1 calls of the underlying transport.
C4_AtMostCallsPlusOne ==
    matched # 0 => rtCalls <= calls + 1 /\ Len(att) <= calls + 1

C4_Witness ==
    /\ Returned
    /\ calls >= 1
    /\ rtCalls = calls + 1
    /\ callerCancelled

\* The select of the collector ran at least once when the caller's scope
\* was already cancelled, or left by the Done case.
CollectorSawCancel ==
    \/ collExit = "cancelled"
    \/ recvLog # << >> /\ Last(recvLog).cancelled

\* C5, as claimed: if the caller's scope is cancelled (here: no later than
\* the collector's last select) and no validated response was captured, the
\* call returns ctx.Err(), whichever case the select took.
C5_Claimed_CancelAlwaysWins ==
    (Returned /\ callerCancelled /\ CollectorSawCancel /\ resp = Nil) =>
        err = CtxErr

\* C5, amended: if the caller's scope is cancelled and no validated
\* response was captured, the call returns ctx.Err() when the collector's
\* select took the Done case, whatever errors it had received before; when
\* the select took all calls+1 attempt errors from res instead, the call
\* returns the first of them.
C5_CancelOrFirstError ==
    (Returned /\ callerCancelled /\ resp = Nil) =>
        \/ collExit = "cancelled" /\ err = CtxErr
        \/ /\ collExit = "errors"
           /\ Len(recvLog) = calls + 1
           /\ err = recvLog[1].item

C5_Witness ==
    /\ Returned
    /\ callerCancelled
    /\ ~preCancelled
    /\ collExit = "cancelled"
    /\ recvLog # << >>
    /\ recvLog[1].item # CtxErr
    /\ err = CtxErr

\* C6, as claimed: a matched request whose scope is cancelled before
\* RoundTrip is called returns the cancellation error and the underlying
\* transport is never called.
C6_Claimed_NoTransportCall ==
    (preCancelled /\ matched # 0) =>
        /\ rtCalls = 0
        /\ pc = "done" => err = CtxErr

\* C6, amended: for a matched request whose scope is cancelled before
\* RoundTrip is called, the transport is called calls+1 times, each time
\* with the cancelled scope; the call returns the cancellation error when
\* the collector's select took the Done case, and also when every transport
\* call failed with the scope's error.
C6_PreCancelled ==
    (preCancelled /\ matched # 0) =>
        /\ \A a \in DOMAIN att : att[a].st # "ready" => att[a].ctxAtCall
        /\ pc = "done" =>
              /\ rtCalls = calls + 1
              /\ collExit = "cancelled" => resp = Nil /\ err = CtxErr
              /\ (\A a \in DOMAIN att : att[a].out = CtxErr) =>
                    resp = Nil /\ err = CtxErr

C6_Witness ==
    /\ Returned
    /\ preCancelled
    /\ calls >= 1
    /\ rtCalls = calls + 1
    /\ collExit = "errors"
    /\ \A a \in DOMAIN att : att[a].out = CtxErr

\* C7, as claimed: on the success path every response an attempt obtained
\* from the transport, other than the one returned, has been closed by the
\* engine when the call returns, and no response is left in res.
C7_Claimed_LosersClosed ==
    (Returned /\ resp # Nil) =>
        /\ \A a \in DOMAIN att :
              (IsResp(att[a].out) /\ att[a].out # resp) => att[a].out \in closed
        /\ \A i \in 1 .. Len(res) : ~IsResp(res[i])

\* C8: when multiRoundTrip returns, the collector and all calls+1 roundTrip
\* goroutines have returned; and on the success path the group's ctx is
\* cancelled by the time the collector's goroutine is done, which is before
\* the wait can end, so that at the return every other attempt's transport
\* call has returned.
C8_NoTaskOutlivesCall ==
    /\ Returned =>
          /\ cpc = "exit"
          /\ Len(att) = calls + 1
          /\ \A a \in DOMAIN att : att[a].st = "done"
          /\ resClosed
    /\ (cpc = "exit" /\ resp # Nil) => ctxCancelled

C8_Witness ==
    /\ Returned
    /\ resp # Nil
    /\ calls >= 1
    /\ ~callerCancelled
    /\ \E a \in DOMAIN att : att[a].out = CtxErr /\ ~att[a].ctxAtCall

\* C9: every return of multiRoundTrip yields a response and a nil error,
\* or no response and an error.
C9_ExactlyOneResult ==
    Returned =>
        \/ IsResp(resp) /\ err = Nil
        \/ resp = Nil /\ IsErr(err)

C9_Witness ==
    /\ Returned
    /\ collExit = "cancelled"
    /\ recvLog = << >>
    /\ resp = Nil
    /\ err = CtxErr

\* C10: the primary roundTrip is started before After is called; After is
\* called once per call; every hedged roundTrip is started after that one
\* timer has fired, and all calls of them are started.
C10_PrimaryThenFanout ==
    matched # 0 =>
        /\ att # << >>
        /\ att[1].startAfter = 0
        /\ att[1].startTimer = "none"
        /\ \A a \in DOMAIN att :
              a > 1 => att[a].startAfter = 1 /\ att[a].startTimer = "fired"
        /\ afterCalls[matched] = IF pc = "after" THEN 0 ELSE 1
        /\ \A k \in 1 .. Len(resources) : k # matched => afterCalls[k] = 0
        /\ pc = "done" => Len(att) = calls + 1

C10_Witness ==
    /\ Returned
    /\ calls >= 2
    /\ att[1].st = "done"
    /\ att[3].startTimer = "fired"

\* C11: when several resources match, the call is hedged with the first of
\* them in configuration order: After, Check and Hook of no other resource
\* are called, and responses are validated by its allowed codes.
C11_FirstMatchOnly ==
    matched # 0 =>
        /\ Match(resources[matched], req)
        /\ \A k \in 1 .. (matched - 1) : ~Match(resources[k], req)
        /\ \A k \in 1 .. Len(resources) :
              k # matched =>
                 afterCalls[k] = 0 /\ checkCalls[k] = 0 /\ hookCalls[k] = 0
        /\ \A a \in DOMAIN att :
              (att[a].st = "done" /\ IsResp(att[a].out)) =>
                 (att[a].cb = 1 <=> att[a].out.code \in resources[matched].codes)

C11_Witness ==
    /\ Returned
    /\ \E k \in (matched + 1) .. Len(resources) :
          /\ Match(resources[k], req)
          /\ 403 \in resources[k].codes
    /\ afterCalls[matched] = 1
    /\ hookCalls[matched] = calls + 1
    /\ err = ErrResourceUnexpectedResponseCode(403)

\* C13: the callback returned by Hook runs exactly once for an attempt
\* whose transport call returned a response that passed Check, and never
\* for an attempt whose transport call returned an error or whose response
\* failed Check, nor before the attempt's transport call has returned.
C13_CallbackOnlyOnSuccess ==
    \A a \in DOMAIN att :
        att[a].cb =
            IF /\ att[a].st = "done"
               /\ IsResp(att[a].out)
               /\ Check(resources[matched], att[a].out) = Nil
            THEN 1 ELSE 0

C13_Witness ==
    /\ Returned
    /\ calls >= 2
    /\ att[1].cb = 1
    /\ IsResp(att[2].out) /\ att[2].cb = 0
    /\ att[3].out = CtxErr /\ att[3].cb = 0

\* C12: for every resource variant and every response, Check returns nil
\* iff the response's status code is in the resource's allowed-code set, and
\* otherwise returns ErrResourceUnexpectedResponseCode carrying exactly that
\* status code; with an empty allowed-code set every response fails Check.
C12_CheckByAllowedCodes ==
    checkOut # Nil =>
        /\ checkOut.out = Nil <=> checkOut.code \in rsrc.codes
        /\ checkOut.code \notin rsrc.codes =>
              checkOut.out = ErrResourceUnexpectedResponseCode(checkOut.code)
        /\ rsrc.codes = {} => checkOut.out # Nil

C12_Witness ==
    /\ checkOut # Nil
    /\ rsrc.kind = "percentiles"
    /\ rsrc.codes = {}
    /\ checkOut.out = ErrResourceUnexpectedResponseCode(500)

\* The call of After has returned on an average resource, and no callback
\* was in progress while it ran.
AverageAfterQuiet ==
    /\ rsrc.kind = "average"
    /\ afterOut # Nil
    /\ afterOut.quiet

\* C14: an Average resource starts to use the dynamically computed average
\* delay only after capacity/4 successful observations; before that After
\* uses the configured base delay.
C14_Claimed_AverageAfterQuarter ==
    (AverageAfterQuiet /\ afterOut.n >= 1) =>
        IF 4 * afterOut.n >= rsrc.capacity
        THEN afterOut.src = "computed"
        ELSE afterOut.src = "base"

\* The call of After has returned on a percentiles resource.
PercentilesAfterDone == rsrc.kind = "percentiles" /\ afterOut # Nil

\* C15 as stated: for a Percentile resource of capacity C, After uses the
\* configured base delay whenever the latency buffer holds fewer than
\* ceil(C/2) observations, for every C (odd and even); only from ceil(C/2)
\* observations on does it use a delay computed from the buffer.
C15_Claimed_BaseBelowCeilHalf ==
    PercentilesAfterDone =>
        (afterOut.n < (rsrc.capacity + 1) \div 2 <=> afterOut.src = "base")

\* C15, amended: After uses the configured base delay exactly when the
\* buffer holds fewer than floor(C/2) observations (capacity/2 in integer
\* division); from floor(C/2) observations on it leaves the base delay and
\* reads the sorted buffer at round(l * p) - 1, and when that index is in
\* range the delay is the element there.
C15_BaseBelowFloorHalf ==
    PercentilesAfterDone =>
        IF afterOut.n < rsrc.capacity \div 2
        THEN afterOut.src = "base" /\ afterOut.delay = rsrc.delay
        ELSE /\ afterOut.src \in {"computed", "panic"}
             /\ afterOut.src = "computed" =>
                   afterOut.delay =
                      Sort(latencies)[Round(afterOut.n, rsrc.percentile)]

C15_Witness ==
    /\ PercentilesAfterDone
    /\ rsrc.capacity = 3
    /\ afterOut.n = 1
    /\ afterOut.src = "computed"
    /\ afterOut.delay = 20

\* C16: Match and After never fail: for every resource the constructors can
\* build (any capacity >= 0, any quantile in [0,1]) and every statistics
\* state reachable by completion callbacks, After returns a readiness signal
\* without an out-of-range buffer index and without a division by zero.
C16_Claimed_AfterNeverFails ==
    afterOut # Nil => afterOut.src # "panic"

\* C17: for an Average resource of capacity C with observation count n and
\* latency sum s, no callback in progress, After uses delay s/n (integer
\* division) when n >= C and the configured base delay when n < C.
C17_Claimed_AverageDelayFromCountAndSum ==
    AverageAfterQuiet =>
        IF count >= rsrc.capacity
        THEN /\ afterOut.src = "computed"
             /\ afterOut.delay = GoDiv(sum, count)
        ELSE /\ afterOut.src = "base"
             /\ afterOut.delay = rsrc.delay

\* The last step of a renormalisation by goroutine p, run sequentially on a
\* resource of capacity C >= 1 whose sum did not overflow.
RenormalisationEnds(p) ==
    /\ nprocs = 1
    /\ rsrc.capacity >= 1
    /\ hooks[p].pc = "storecount"
    /\ hooks[p].newval >= 0
    /\ hooks'[p].pc = "idle"

\* C18: when an Average resource renormalises in a completion callback
\* (count exceeded 2*C or the sum overflowed), the mean sum/count after the
\* renormalisation equals the mean of the statistics just before it, up to
\* integer rounding (a difference of at most 1).  The mean before is taken
\* either with or without the observation of the renormalising callback.
C18_Claimed_RenormalisationKeepsMean ==
    [][\A p \in DOMAIN hooks :
          RenormalisationEnds(p) =>
             \/ Abs(GoDiv(sum', count')
                      - GoDiv(hooks[p].newval, hooks[p].cnt)) <= 1
             \/ Abs(GoDiv(sum', count')
                      - GoDiv(hooks[p].oldval, hooks[p].cnt - 1)) <= 1]_vars

\* C19: for an Average resource of capacity C >= 1, after any sequence of
\* sequential successful observations that all have the same latency L,
\* once saturated the delay sum/count computed by After stays within
\* integer rounding of L for every number of observations, including across
\* any number of renormalisations.
C19_Claimed_SameLatencyKeepsMean ==
    \A L \in Latencies :
        (/\ AverageAfterQuiet
         /\ nprocs = 1
         /\ rsrc.capacity >= 1
         /\ seen = {L}
         /\ afterOut.src = "computed") =>
            Abs(afterOut.delay - L) <= 1

\* C20: for an Average resource of capacity C >= 1, the observation count
\* satisfies 0 <= count <= 2*C in every state in which no completion
\* callback is in progress, after any number of completion callbacks run
\* sequentially or concurrently.
C20_CountWithinTwiceCapacity ==
    (rsrc.kind = "average" /\ rsrc.capacity >= 1 /\ Quiet) =>
        (0 <= count /\ count <= 2 * rsrc.capacity)

C20_Witness ==
    /\ rsrc.kind = "average"
    /\ rsrc.capacity = 1
    /\ nprocs = 2
    /\ Quiet
    /\ nobs = 4
    /\ count = rsrc.capacity + 1

\* floor(l * p) clamped to [0, l - 1], p in quarters.
ClampedFloorIndex(l, pct) ==
    LET f == (l * pct) \div 4
    IN  IF f > l - 1 THEN l - 1 ELSE IF f < 0 THEN 0 ELSE f

\* C21: for a saturated Percentile resource with quantile p and a buffer of
\* l observations, the delay used by After is the element of the
\* ascending-sorted snapshot at index floor(l * p) clamped to [0, l - 1], or
\* at the index one below it, for every l and every p in [0,1].
C21_Claimed_DelayAtFloorIndex ==
    (PercentilesAfterDone /\ afterOut.src # "base" /\ afterOut.n >= 1) =>
        /\ afterOut.src = "computed"
        /\ \E j \in {ClampedFloorIndex(afterOut.n, rsrc.percentile),
                     ClampedFloorIndex(afterOut.n, rsrc.percentile) - 1} :
              /\ j \in 0 .. afterOut.n - 1
              /\ afterOut.delay = Sort(latencies)[j + 1]

\* C22: for a Percentile resource of any capacity C >= 1, the latency
\* buffer never holds more than 2*C observations after any sequence of
\* completion callbacks.
C22_Claimed_BufferWithinTwiceCapacity ==
    (rsrc.kind = "percentiles" /\ rsrc.capacity >= 1) =>
        Len(latencies) <= 2 * rsrc.capacity

\* C23: a Percentile resource only ever discards its oldest observations:
\* after any sequence of completion callbacks the buffer equals the most
\* recent |buffer| observations in arrival order (a suffix of the full
\* observation sequence), and the observation just appended is always
\* retained.
C23_BufferIsNewestSuffix ==
    rsrc.kind = "percentiles" =>
        /\ Len(latencies) <= Len(observed)
        /\ latencies = SubSeq(observed,
                              Len(observed) - Len(latencies) + 1,
                              Len(observed))
        /\ observed # << >> => latencies # << >>

C23_Witness ==
    /\ rsrc.kind = "percentiles"
    /\ rsrc.capacity = 3
    /\ observed = << 1, 20, 20, 1, 20 >>
    /\ latencies = << 1, 20 >>

\* Callbacks of one latency have run to completion, two goroutines sharing
\* them, on an average resource of capacity C >= 1.
SameLatencyCallbacksDone(L) ==
    /\ rsrc.kind = "average"
    /\ rsrc.capacity >= 1
    /\ nprocs = 2
    /\ Quiet
    /\ seen = {L}

\* C24: statistics updates are linearisable for both dynamic variants: for
\* every interleaving of K concurrent completion callbacks on one Average
\* or one Percentile resource, the final statistics (sum and count, or
\* buffer contents) equal the statistics produced by running the same K
\* callbacks one after another in some order.  Stated for callbacks of one
\* latency, whose every order gives the same statistics.
C24_Claimed_Linearisable ==
    \A L \in Latencies :
        SameLatencyCallbacksDone(L) =>
            [sum |-> sum, count |-> count]
                = AverageAfterCallbacks(rsrc, L, nobs)

\* C25: with fan-out count N = 0 and a caller scope that is never
\* cancelled, a matched call performs exactly one transport RoundTrip and
\* behaves as a pass-through plus validation: it returns the transport's
\* response iff the call succeeded and the response passes Check, and
\* otherwise returns that single attempt's error.
C25_ZeroFanoutPassThrough ==
    (Returned /\ calls = 0 /\ ~callerCancelled) =>
        /\ rtCalls = 1
        /\ Len(att) = 1
        /\ IF IsResp(att[1].out) /\ Check(resources[matched], att[1].out) = Nil
           THEN resp = att[1].out /\ err = Nil
           ELSE /\ resp = Nil
                /\ err = IF IsErr(att[1].out) THEN att[1].out
                         ELSE Check(resources[matched], att[1].out)

C25_Witness ==
    /\ Returned
    /\ calls = 0
    /\ ~callerCancelled
    /\ rtCalls = 1
    /\ att[1].out = Resp(1, 403)
    /\ resp = Nil
    /\ err = ErrResourceUnexpectedResponseCode(403)

\* C26: every matched call eventually returns, provided the resource's
\* readiness signal eventually fires and every transport RoundTrip
\* eventually returns: under fair scheduling no interleaving leaves the
\* caller, the collector or an attempt blocked forever.
C26_MatchedCallReturns == (matched # 0) ~> (pc = "done")

C26_Witness ==
    /\ Returned
    /\ calls = 2
    /\ Len(att) = 3
    /\ collExit = "cancelled"
    /\ \A a \in DOMAIN att : att[a].st = "done"
    /\ resClosed

\* C27: the result channel of a matched call never holds more than calls+1
\* items, so an attempt's send never blocks, even after the collector has
\* exited early on a success or a cancellation; and the channel is closed
\* only after every attempt has finished, so no attempt ever sends on a
\* closed channel.
C27_SendNeverBlocks ==
    /\ Len(res) <= calls + 1
    /\ \A a \in DOMAIN att :
          att[a].st # "done" => (Len(res) < ChanCap(calls) /\ ~resClosed)
    /\ resClosed =>
          /\ Len(att) = calls + 1
          /\ \A a \in DOMAIN att : att[a].st = "done"

C27_Witness ==
    /\ Returned
    /\ resClosed
    /\ calls = 2
    /\ collExit = "cancelled"
    /\ recvLog = << >>
    /\ Len(res) = 3

\* C28 as stated: a matched call never returns before the resource's
\* readiness signal has fired, and once it fires the call starts all N
\* hedged attempts, even when the primary attempt's response was already
\* captured by the collector or the caller's scope was already cancelled;
\* in those cases the hedged attempts invoke the transport with an
\* already-cancelled scope.  Stated over every step: a return leaves the
\* timer fired and all calls+1 attempts started after it, called and
\* finished; and a hedged attempt started after the capture or after the
\* caller's cancellation enters the transport with ctx cancelled.
C28_Claimed_HedgesSeeCancelledScope ==
    [][/\ (pc' = "done" /\ matched' # 0) =>
             /\ timer' = "fired"
             /\ Len(att') = calls' + 1
             /\ rtCalls' = calls' + 1
             /\ \A a \in DOMAIN att' :
                   /\ att'[a].st = "done"
                   /\ a > 1 => att'[a].startTimer = "fired"
       /\ \A a \in DOMAIN att :
             (/\ a > 1
              /\ att[a].st = "ready"
              /\ att'[a].st = "inflight"
              /\ att[a].startResp \/ callerCancelled) =>
                 att'[a].ctxAtCall]_vars

\* C28, amended: a matched call never returns before the resource's
\* readiness signal has fired, and once it fires the call starts all N
\* hedged attempts, whatever the collector has captured and whether or not
\* the scope is cancelled.  The caller's cancellation cancels ctx at once;
\* the capture of a response does not: the group cancels ctx after the
\* collector has returned, and at the latest when the collector's goroutine
\* is done.  ctx stays cancelled, every attempt passes ctx as it is to the
\* transport, and so a hedged attempt calls the transport with a cancelled
\* scope when it calls after the group's or the caller's cancellation; an
\* attempt that calls between the capture and the group's cancellation
\* passes a live scope.
C28_AllHedgesAfterSignal ==
    [][/\ (pc' = "done" /\ matched' # 0) =>
             /\ timer' = "fired"
             /\ Len(att') = calls' + 1
             /\ rtCalls' = calls' + 1
             /\ \A a \in DOMAIN att' :
                   /\ att'[a].st = "done"
                   /\ a > 1 => att'[a].startTimer = "fired"
       /\ (callerCancelled' /\ matched' # 0) => ctxCancelled'
       /\ (cpc' = "exit" /\ collExit' \in {"response", "cancelled"}) =>
             ctxCancelled'
       /\ ctxCancelled => ctxCancelled'
       /\ \A a \in DOMAIN att :
             (att[a].st = "ready" /\ att'[a].st = "inflight") =>
                 /\ att'[a].ctxAtCall = ctxCancelled
                 /\ rtCalls' = rtCalls + 1
                 /\ (/\ att[a].startResp
                     /\ ~callerCancelled
                     /\ ~att'[a].ctxAtCall) => cpc = "returned"]_vars

\* Of two hedged attempts started after the capture of the primary's
\* response, one enters the transport before the group has cancelled ctx
\* and one after.
C28_Witness ==
    /\ Returned
    /\ calls = 2
    /\ ~callerCancelled
    /\ collExit = "response"
    /\ resp = Resp(1, 200)
    /\ ~att[1].ctxAtCall
    /\ att[2].startResp /\ ~att[2].ctxAtCall
    /\ att[3].startResp /\ att[3].ctxAtCall
    /\ rtCalls = 3

\* C29: after any sequence of NewHTTPClient calls, including repeated calls
\* with a nil client or with the same client value, a request sent through
\* a returned client passes through exactly one hedging layer: one resource
\* lookup and at most calls+1 underlying transport calls for the
\* configuration given in the call that returned that client.
C29_Claimed_OneHedgingLayer ==
    sent # Nil =>
        /\ sent.layers = 1
        /\ sent.lookups = 1
        /\ \A h \in handed :
              h.client = sent.client => sent.rt <= h.calls + 1

\* C30: saturation is permanent for capacity C >= 2: once an Average
\* resource has count >= C, or a Percentile resource has at least C/2
\* (integer division) buffered observations, no later sequence of
\* sequential completion callbacks, including renormalisations and buffer
\* discards, brings it back below that threshold, so After never reverts to
\* the base delay.  Stated over every step: no step takes the count or the
\* buffer from the threshold or above to below it, and an After that finds
\* them at the threshold or above does not use the base delay.
C30_SaturationIsPermanent ==
    [][(rsrc.capacity >= 2 /\ nprocs = 1) =>
          /\ (rsrc.kind = "average" /\ count >= rsrc.capacity) =>
                count' >= rsrc.capacity
          /\ (rsrc.kind = "percentiles"
                 /\ Len(latencies) >= rsrc.capacity \div 2) =>
                Len(latencies') >= rsrc.capacity \div 2
          /\ (afterOut' # Nil /\ rsrc.kind = "average"
                 /\ afterOut'.n >= rsrc.capacity) =>
                afterOut'.src # "base"
          /\ (afterOut' # Nil /\ rsrc.kind = "percentiles"
                 /\ afterOut'.n >= rsrc.capacity \div 2) =>
                afterOut'.src # "base"]_vars

C30_Witness ==
    /\ rsrc.kind = "percentiles"
    /\ rsrc.capacity = 2
    /\ nprocs = 1
    /\ Len(observed) = 4
    /\ Len(latencies) = 1
    /\ afterOut # Nil
    /\ afterOut.src = "computed"

\* The largest latency the callbacks started so far have measured.
LargestSeen == CHOOSE x \in seen : \A y \in seen : y <= x

\* The latencies of all callbacks started so far fit the accumulator
\* together, so the sum has not overflowed.
NoOverflowYet == \A d \in seen : nobs * d < 2 ^ (IntBits - 1)

\* C31: for a saturated Average resource, the delay computed by After never
\* exceeds the largest latency ever observed by that resource, even when
\* After's separate atomic reads of count and sum interleave with
\* concurrent completion callbacks (absent sum overflow).
C31_Claimed_DelayAtMostLargestLatency ==
    (/\ rsrc.kind = "average"
     /\ rsrc.capacity >= 1
     /\ afterOut # Nil
     /\ afterOut.src = "computed"
     /\ NoOverflowYet) =>
        afterOut.delay <= LargestSeen



====
